---- MODULE Spec2Model ----
(***************************************************************************)
(* A model of the window-enumerator crate: the snapshot held by            *)
(* WindowEnumerator (src/src/enumerator.rs), the filter predicate and the  *)
(* selection parser (src/src/utils.rs) and the sort engine                 *)
(* (src/src/models.rs).                                                    *)
(*                                                                         *)
(* Text is a sequence of code points (65 = 'A', 97 = 'a', ...), so that    *)
(* lower-casing, substring search and lexicographic comparison are         *)
(* computed and not assumed.  Option<T> is a sequence of length 0 (None)   *)
(* or 1 (Some(v)).                                                         *)
(***************************************************************************)
EXTENDS Integers, Sequences, FiniteSets, TLC

VARIABLES windows, op, args, ret

vars == <<windows, op, args, ret>>

(***************************************************************************)
(* Bounds of the model.                                                    *)
(***************************************************************************)
\* longest enumeration the Window Source delivers in one EnumWindows call
MaxWindows == 2

\* longest title and longest title criterion matches_criteria is applied to
MaxTextLen == 2

\* longest list sort_windows is applied to
MaxSortLen == 3

\* most comma-separated tokens in a selection string
MaxTokens == 2

\* most '|'-separated parts in a position sort string
MaxCoords == 3

----------------------------------------------------------------------------
(***************************************************************************)
(* Option, text and ordering helpers (Rust core/std behaviour).            *)
(***************************************************************************)
None == <<>>

Some(v) == <<v>>

\* the code points the model writes its texts with
CharCode ==
    [c \in {" ", "+", ",", "-", "0", "1", "2", "3", "5", "A", "B", "L", "P", "X",
            "Y", "\\", "a", "b", "c", "l", "p", "x", "y", "z", "|"} |->
        CASE c = " " -> 32 [] c = "+" -> 43 [] c = "," -> 44 [] c = "-" -> 45
          [] c = "0" -> 48 [] c = "1" -> 49 [] c = "2" -> 50 [] c = "3" -> 51
          [] c = "5" -> 53
          [] c = "A" -> 65 [] c = "B" -> 66 [] c = "L" -> 76 [] c = "P" -> 80
          [] c = "X" -> 88 [] c = "Y" -> 89
          [] c = "\\" -> 92
          [] c = "a" -> 97 [] c = "b" -> 98 [] c = "c" -> 99 [] c = "l" -> 108
          [] c = "p" -> 112 [] c = "x" -> 120 [] c = "y" -> 121 [] c = "z" -> 122
          [] c = "|" -> 124]

\* a text written as a tuple of one-character strings
Str(cs) == [i \in 1..Len(cs) |-> CharCode[cs[i]]]

\* char::to_lowercase on the code points used here: the ASCII capitals map
\* to their small letters, every other code point to itself
to_lowercase_char(c) == IF c >= 65 /\ c <= 90 THEN c + 32 ELSE c

\* str::to_lowercase
to_lowercase(s) == [i \in 1..Len(s) |-> to_lowercase_char(s[i])]

\* OsStr::to_string_lossy: an unpaired surrogate (0xD800..0xDFFF) of the wide
\* string becomes U+FFFD, every other code point is kept
to_string_lossy(s) ==
    [i \in 1..Len(s) |-> IF s[i] >= 55296 /\ s[i] <= 57343 THEN 65533 ELSE s[i]]

\* str::starts_with at offset i: does needle n occur in h at position i
OccursAt(h, n, i) ==
    /\ i + Len(n) - 1 <= Len(h)
    /\ \A k \in 1..Len(n) : h[i + k - 1] = n[k]

\* str::contains: scan the start positions left to right
RECURSIVE ContainsFrom(_, _, _)
ContainsFrom(h, n, i) ==
    IF i + Len(n) - 1 > Len(h) THEN FALSE
    ELSE IF OccursAt(h, n, i) THEN TRUE
    ELSE ContainsFrom(h, n, i + 1)

contains(h, n) == ContainsFrom(h, n, 1)

\* Ordering::reverse
reverse(o) ==
    CASE o = "Less" -> "Greater"
      [] o = "Greater" -> "Less"
      [] OTHER -> "Equal"

\* Ord::cmp on integers (u32 pid, i32 coordinates)
cmp_int(a, b) == IF a < b THEN "Less" ELSE IF a > b THEN "Greater" ELSE "Equal"

\* Ord::cmp on str: lexicographic by code point, a proper prefix is Less
RECURSIVE cmp_str(_, _)
cmp_str(s, t) ==
    IF s = <<>> /\ t = <<>> THEN "Equal"
    ELSE IF s = <<>> THEN "Less"
    ELSE IF t = <<>> THEN "Greater"
    ELSE IF Head(s) # Head(t) THEN cmp_int(Head(s), Head(t))
    ELSE cmp_str(Tail(s), Tail(t))

\* Path::file_name: the last component of the path; separators at the end are
\* ignored, and a path ending in ".." (or with no component) has no file name
RECURSIVE StripTrailingSep(_)
StripTrailingSep(p) ==
    IF p # <<>> /\ p[Len(p)] \in {47, 92}
    THEN StripTrailingSep(SubSeq(p, 1, Len(p) - 1))
    ELSE p

RECURSIVE LastComponent(_)
LastComponent(p) ==
    IF p = <<>> \/ p[Len(p)] \in {47, 92} THEN <<>>
    ELSE Append(LastComponent(SubSeq(p, 1, Len(p) - 1)), p[Len(p)])

file_name(p) ==
    LET c == LastComponent(StripTrailingSep(p))
    IN  IF c = <<>> \/ c = <<46, 46>> THEN None ELSE Some(c)

----------------------------------------------------------------------------
(***************************************************************************)
(* types.rs                                                                *)
(***************************************************************************)
WindowPosition(x, y, width, height) ==
    [x |-> x, y |-> y, width |-> width, height |-> height]

WindowPosition_default == WindowPosition(0, 0, 0, 0)

WindowInfo(hwnd, pid, title, class_name, process_name, process_file, position, index) ==
    [hwnd |-> hwnd, pid |-> pid, title |-> title, class_name |-> class_name,
     process_name |-> process_name, process_file |-> process_file,
     index |-> index, position |-> position]

FilterCriteria(pid, title, class_name, process_name, process_file) ==
    [pid |-> pid, title_contains |-> title, class_name_contains |-> class_name,
     process_name_contains |-> process_name, process_file_contains |-> process_file]

FilterCriteria_default == FilterCriteria(None, None, None, None, None)

Selection_All == [tag |-> "All", indices |-> <<>>]

Selection_Indices(indices) == [tag |-> "Indices", indices |-> indices]

\* PositionSort::X(order), ::Y(order), ::XY(x_order, y_order)
PositionSort_X(order) == [kind |-> "X", order |-> <<order>>]

PositionSort_Y(order) == [kind |-> "Y", order |-> <<order>>]

PositionSort_XY(x_order, y_order) == [kind |-> "XY", order |-> <<x_order, y_order>>]

SortCriteria(pid, title, position) ==
    [pid |-> pid, title |-> title, position |-> position]

SortCriteria_default == SortCriteria(0, 0, None)

----------------------------------------------------------------------------
(***************************************************************************)
(* utils.rs: the filter predicate                                          *)
(***************************************************************************)
\* the criterion with the to_lowercase calls lost
SubstringRejects_case_sensitive(filter, field) ==
    /\ filter # None
    /\ filter[1] # <<>>
    /\ ~contains(field, filter[1])

\* one "contains, case-insensitive" criterion on a text field: rejects only
\* when the criterion is Some, non-empty and not contained
SubstringRejects(filter, field) ==
    /\ filter # None
    /\ filter[1] # <<>>
    /\ ~contains(to_lowercase(field), to_lowercase(filter[1]))

matches_criteria(window, criteria) ==
    IF criteria.pid # None /\ window.pid # criteria.pid[1] THEN FALSE
    ELSE IF SubstringRejects(criteria.title_contains, window.title) THEN FALSE
    ELSE IF SubstringRejects(criteria.class_name_contains, window.class_name) THEN FALSE
    ELSE IF SubstringRejects(criteria.process_name_contains, window.process_name) THEN FALSE
    ELSE IF SubstringRejects(criteria.process_file_contains,
                             to_string_lossy(window.process_file)) THEN FALSE
    ELSE TRUE

----------------------------------------------------------------------------
(***************************************************************************)
(* models.rs: WindowSorter                                                 *)
(***************************************************************************)
\* compare_positions with x_order used for both coordinates of XY
compare_positions_one_order(a, b, position_sort) ==
    LET x_ordering == cmp_int(a.position.x, b.position.x)
        y_ordering == cmp_int(a.position.y, b.position.y)
        ordering == IF position_sort.kind = "X" THEN x_ordering
                    ELSE IF position_sort.kind = "Y" THEN y_ordering
                    ELSE IF x_ordering # "Equal" THEN x_ordering
                    ELSE y_ordering
    IN  IF position_sort.order[1] < 0 THEN reverse(ordering) ELSE ordering

\* compare_positions reversing on `<= 0`: a 0 order sorts descending
compare_positions_zero_descending(a, b, position_sort) ==
    LET x_ordering == cmp_int(a.position.x, b.position.x)
        y_ordering == cmp_int(a.position.y, b.position.y)
    IN  IF position_sort.kind = "X"
        THEN IF position_sort.order[1] <= 0 THEN reverse(x_ordering) ELSE x_ordering
        ELSE IF position_sort.kind = "Y"
        THEN IF position_sort.order[1] <= 0 THEN reverse(y_ordering) ELSE y_ordering
        ELSE IF x_ordering # "Equal"
        THEN IF position_sort.order[1] <= 0 THEN reverse(x_ordering) ELSE x_ordering
        ELSE IF position_sort.order[2] <= 0 THEN reverse(y_ordering) ELSE y_ordering

compare_positions(a, b, position_sort) ==
    IF position_sort.kind = "X" THEN
        LET ordering == cmp_int(a.position.x, b.position.x)
        IN  IF position_sort.order[1] < 0 THEN reverse(ordering) ELSE ordering
    ELSE IF position_sort.kind = "Y" THEN
        LET ordering == cmp_int(a.position.y, b.position.y)
        IN  IF position_sort.order[1] < 0 THEN reverse(ordering) ELSE ordering
    ELSE
        LET x_ordering == cmp_int(a.position.x, b.position.x)
            y_ordering == cmp_int(a.position.y, b.position.y)
        IN  IF x_ordering # "Equal"
            THEN IF position_sort.order[1] < 0 THEN reverse(x_ordering) ELSE x_ordering
            ELSE IF position_sort.order[2] < 0 THEN reverse(y_ordering) ELSE y_ordering

\* the closure with the title block moved in front of the pid block
compare_windows_title_first(a, b, sort_criteria) ==
    LET title_ordering ==
            IF sort_criteria.title < 0
            THEN reverse(cmp_str(to_lowercase(a.title), to_lowercase(b.title)))
            ELSE cmp_str(to_lowercase(a.title), to_lowercase(b.title))
        pid_ordering ==
            IF sort_criteria.pid < 0
            THEN reverse(cmp_int(a.pid, b.pid))
            ELSE cmp_int(a.pid, b.pid)
    IN  IF sort_criteria.title # 0 /\ title_ordering # "Equal" THEN title_ordering
        ELSE IF sort_criteria.pid # 0 /\ pid_ordering # "Equal" THEN pid_ordering
        ELSE IF sort_criteria.position # None
        THEN compare_positions(a, b, sort_criteria.position[1])
        ELSE "Equal"

\* the closure handed to sort_by
compare_windows(a, b, sort_criteria) ==
    LET pid_ordering ==
            IF sort_criteria.pid # 0
            THEN IF sort_criteria.pid < 0
                 THEN reverse(cmp_int(a.pid, b.pid))
                 ELSE cmp_int(a.pid, b.pid)
            ELSE "Equal"
        title_ordering ==
            IF sort_criteria.title # 0
            THEN IF sort_criteria.title < 0
                 THEN reverse(cmp_str(to_lowercase(a.title), to_lowercase(b.title)))
                 ELSE cmp_str(to_lowercase(a.title), to_lowercase(b.title))
            ELSE pid_ordering
        position_ordering ==
            IF sort_criteria.position # None
            THEN compare_positions(a, b, sort_criteria.position[1])
            ELSE title_ordering
    IN  IF sort_criteria.pid # 0 /\ pid_ordering # "Equal" THEN pid_ordering
        ELSE IF sort_criteria.title # 0 /\ title_ordering # "Equal" THEN title_ordering
        ELSE position_ordering

\* slice::sort_by is a stable sort; with a comparator that is a total
\* preorder every stable sort gives the same list, computed here by insertion
RECURSIVE InsertSorted(_, _, _)
InsertSorted(sorted, w, sort_criteria) ==
    IF sorted = <<>> THEN <<w>>
    ELSE IF compare_windows(sorted[Len(sorted)], w, sort_criteria) = "Greater"
    THEN Append(InsertSorted(SubSeq(sorted, 1, Len(sorted) - 1), w, sort_criteria),
                sorted[Len(sorted)])
    ELSE Append(sorted, w)

\* a sort that takes the records from the back: records that tie come out
\* in reverse
RECURSIVE sort_by_from_the_back(_, _)
sort_by_from_the_back(ws, sort_criteria) ==
    IF ws = <<>> THEN <<>>
    ELSE InsertSorted(sort_by_from_the_back(Tail(ws), sort_criteria),
                      ws[1], sort_criteria)

RECURSIVE sort_by(_, _)
sort_by(ws, sort_criteria) ==
    IF ws = <<>> THEN <<>>
    ELSE InsertSorted(sort_by(SubSeq(ws, 1, Len(ws) - 1), sort_criteria),
                      ws[Len(ws)], sort_criteria)

\* sort_windows that numbers the records again after sorting
sort_windows_renumbering(ws, sort_criteria) ==
    LET sorted == IF /\ sort_criteria.pid = 0
                     /\ sort_criteria.title = 0
                     /\ sort_criteria.position = None
                  THEN ws
                  ELSE sort_by(ws, sort_criteria)
    IN  [i \in 1..Len(sorted) |-> [sorted[i] EXCEPT !.index = i]]

\* sort_unstable_by: a record goes in front of the records it ties with
RECURSIVE InsertBeforeEqual(_, _, _)
InsertBeforeEqual(sorted, w, sort_criteria) ==
    IF sorted = <<>> THEN <<w>>
    ELSE IF compare_windows(sorted[Len(sorted)], w, sort_criteria) # "Less"
    THEN Append(InsertBeforeEqual(SubSeq(sorted, 1, Len(sorted) - 1), w, sort_criteria),
                sorted[Len(sorted)])
    ELSE Append(sorted, w)

RECURSIVE sort_unstable_by(_, _)
sort_unstable_by(ws, sort_criteria) ==
    IF ws = <<>> THEN <<>>
    ELSE InsertBeforeEqual(sort_unstable_by(SubSeq(ws, 1, Len(ws) - 1), sort_criteria),
                           ws[Len(ws)], sort_criteria)

\* sort_windows without the early return, on an unstable sort
sort_windows_unstable(ws, sort_criteria) == sort_unstable_by(ws, sort_criteria)

sort_windows(ws, sort_criteria) ==
    IF sort_criteria.pid = 0 /\ sort_criteria.title = 0 /\ sort_criteria.position = None
    THEN ws
    ELSE sort_by(ws, sort_criteria)

\* iter().filter(|w| matches_criteria(w, criteria)).cloned().collect()
filter_windows(ws, criteria) ==
    SelectSeq(ws, LAMBDA w : matches_criteria(w, criteria))

filter_and_sort_windows(ws, criteria, sort_criteria) ==
    sort_windows(filter_windows(ws, criteria), sort_criteria)

----------------------------------------------------------------------------
(***************************************************************************)
(* enumerator.rs: the Window Source.  A raw window is what the Win32 calls *)
(* answer for one handle:                                                  *)
(*   visible            IsWindowVisible                                    *)
(*   parent             GetParent (0: none)                                *)
(*   text, class        the characters GetWindowTextW / GetClassNameW      *)
(*                      copy (none when the call fails)                    *)
(*   pid                GetWindowThreadProcessId (left 0 when it fails)    *)
(*   opened, image      OpenProcess succeeds; the characters               *)
(*                      GetProcessImageFileNameW copies                    *)
(*   rect_ok, rect      GetWindowRect succeeds; left, top, right, bottom   *)
(***************************************************************************)
RawWindow(hwnd, visible, parent, text, class, pid, opened, image, rect_ok, rect) ==
    [hwnd |-> hwnd, visible |-> visible, parent |-> parent, text |-> text,
     class |-> class, pid |-> pid, opened |-> opened, image |-> image,
     rect_ok |-> rect_ok, rect |-> rect]

\* the windows a desktop may hold: a window every query answers, one no
\* query answers, one whose title has an unpaired surrogate and whose
\* process cannot be opened, an invisible one and a child
Desktop ==
    { RawWindow(1, TRUE, 0, Str(<<"A", "b">>), Str(<<"c">>), 1, TRUE,
                Str(<<"\\", "x", "\\", "p">>), TRUE, <<0, 1, 2, 4>>),
      RawWindow(2, TRUE, 0, <<>>, <<>>, 0, FALSE, <<>>, FALSE, <<0, 0, 0, 0>>),
      RawWindow(3, TRUE, 0, <<98, 55296>>, Str(<<"c">>), 2, FALSE, <<>>,
                TRUE, <<1, 0, 3, 3>>),
      RawWindow(4, FALSE, 0, Str(<<"a">>), Str(<<"c">>), 1, TRUE,
                Str(<<"\\", "x", "\\", "p">>), TRUE, <<0, 0, 1, 1>>),
      RawWindow(5, TRUE, 1, Str(<<"a">>), Str(<<"c">>), 1, TRUE,
                Str(<<"\\", "x", "\\", "p">>), TRUE, <<0, 0, 1, 1>>) }

\* Result<T>
Ok(v) == [ok |-> TRUE, v |-> v]

Err(e) == [ok |-> FALSE, v |-> e]

get_window_text(raw) ==
    IF Len(raw.text) > 0 THEN to_string_lossy(raw.text) ELSE <<>>

get_class_name(raw) ==
    IF Len(raw.class) > 0 THEN to_string_lossy(raw.class) ELSE <<>>

get_process_id(raw) == raw.pid

get_window_position(raw) ==
    IF raw.rect_ok
    THEN WindowPosition(raw.rect[1], raw.rect[2],
                        raw.rect[3] - raw.rect[1], raw.rect[4] - raw.rect[2])
    ELSE WindowPosition_default

\* Ok((process_name, path_buf)), or Err when the process cannot be opened or
\* no image name is copied
get_process_info(raw) ==
    IF ~raw.opened THEN Err("WindowsApiError")
    ELSE IF Len(raw.image) > 0
    THEN LET name == file_name(raw.image)
         IN  Ok(<<IF name = None THEN <<>> ELSE to_string_lossy(name[1]), raw.image>>)
    ELSE Err("WindowsApiError")

\* get_window_info with `?` in the place of unwrap_or_default
get_window_info_propagating(raw) ==
    LET pid == get_process_id(raw)
        info == IF pid > 0 THEN get_process_info(raw) ELSE Ok(<<<<>>, <<>>>>)
    IN  IF info.ok
        THEN Ok(WindowInfo(raw.hwnd, pid, get_window_text(raw), get_class_name(raw),
                           info.v[1], info.v[2], get_window_position(raw), 0))
        ELSE info

get_window_info(raw) ==
    LET pid == get_process_id(raw)
        info == IF pid > 0 THEN get_process_info(raw) ELSE Ok(<<<<>>, <<>>>>)
        process == IF info.ok THEN info.v ELSE <<<<>>, <<>>>>
    IN  Ok(WindowInfo(raw.hwnd, pid, get_window_text(raw), get_class_name(raw),
                      process[1], process[2], get_window_position(raw), 0))

\* the callback: the enumerator's list after the Window Source delivered raw
enum_windows_proc(ws, raw) ==
    IF raw.visible /\ raw.parent = 0
    THEN LET r == get_window_info(raw)
         IN  IF r.ok THEN Append(ws, [r.v EXCEPT !.index = Len(ws) + 1]) ELSE ws
    ELSE ws

\* EnumWindows: the callback runs on the first k windows of the enumeration
RECURSIVE EnumWindows(_, _, _)
EnumWindows(ws, src, k) ==
    IF k = 0 THEN ws
    ELSE enum_windows_proc(EnumWindows(ws, src, k - 1), src[k])

\* enumerate_all_windows without its first statement
clear_skipped(ws) == ws

\* Vec::clear
clear(ws) == <<>>

\* for (index, window) in self.windows.iter_mut().enumerate()
AssignIndices(ws) == [i \in 1..Len(ws) |-> [ws[i] EXCEPT !.index = i]]

\* Vec::contains
vec_contains(v, x) == \E i \in 1..Len(v) : v[i] = x

\* selection read as positions in the filtered list
apply_selection_positional(filtered, selection) ==
    IF selection.tag = "All" THEN filtered
    ELSE LET keep == { i \in 1..Len(filtered) :
                         \E j \in 1..Len(selection.indices) : selection.indices[j] = i }
             RECURSIVE Pick(_)
             Pick(i) == IF i > Len(filtered) THEN <<>>
                        ELSE IF i \in keep THEN <<filtered[i]>> \o Pick(i + 1)
                        ELSE Pick(i + 1)
         IN  Pick(1)

\* match selection { All => filtered, Indices(indices) => filtered.filter(..) }
apply_selection(filtered, selection) ==
    IF selection.tag = "All" THEN filtered
    ELSE SelectSeq(filtered, LAMBDA w : vec_contains(selection.indices, w.index))

filter_windows_with_selection(ws, criteria, selection) ==
    apply_selection(filter_windows(ws, criteria), selection)

filter_sort_windows_with_selection(ws, criteria, sort_criteria, selection) ==
    apply_selection(filter_and_sort_windows(ws, criteria, sort_criteria), selection)

----------------------------------------------------------------------------
(***************************************************************************)
(* The enumerator as a state machine.                                      *)
(*   windows   WindowEnumerator::windows                                   *)
(*   op        the method called last                                      *)
(*   args      its arguments (for enumerate_all_windows: what the Window   *)
(*             Source did during the call, and whether the enumerator held *)
(*             records when it was called)                                 *)
(*   ret       what it returned                                            *)
(***************************************************************************)
\* the enumerations EnumWindows may deliver
Sources == UNION { [1..n -> Desktop] : n \in 0..MaxWindows }

\* the arguments the queries are called with
FilterInputs ==
    { FilterCriteria_default,
      FilterCriteria(Some(1), None, Some(<<>>), None, None),
      FilterCriteria(None, Some(Str(<<"B">>)), Some(Str(<<"c">>)), None, None) }

SortInputs ==
    { SortCriteria_default,
      SortCriteria(-1, 0, None),
      SortCriteria(0, 1, Some(PositionSort_XY(-1, 1))) }

\* the ascending list of a set of indices
RECURSIVE SetToSeq(_)
SetToSeq(S) ==
    IF S = {} THEN <<>>
    ELSE LET m == CHOOSE x \in S : \A y \in S : y <= x
         IN  Append(SetToSeq(S \ {m}), m)

SelectionInputs ==
    {Selection_All} \cup { Selection_Indices(SetToSeq(S)) : S \in SUBSET (1..MaxWindows) }

Init ==
    /\ windows = <<>>
    /\ op = "new"
    /\ args = <<>>
    /\ ret = <<>>

\* enumerate_all_windows: EnumWindows runs the callback on the windows it
\* delivers, in their order, and then returns success or failure
EnumerateAllWindows ==
    \E delivered \in Sources, success \in BOOLEAN :
        LET collected == EnumWindows(clear(windows), delivered, Len(delivered))
        IN  /\ windows' = IF success THEN AssignIndices(collected) ELSE collected
            /\ ret' = IF success THEN Ok(<<>>) ELSE Err("WindowsApiError")
            /\ op' = "enumerate_all_windows"
            /\ args' = [delivered |-> delivered, held |-> windows # <<>>]

FilterWindows ==
    \E criteria \in FilterInputs :
        /\ ret' = filter_windows(windows, criteria)
        /\ op' = "filter_windows"
        /\ args' = [criteria |-> criteria]
        /\ UNCHANGED windows

FilterAndSortWindows ==
    \E criteria \in FilterInputs, sort_criteria \in SortInputs :
        /\ ret' = filter_and_sort_windows(windows, criteria, sort_criteria)
        /\ op' = "filter_and_sort_windows"
        /\ args' = [criteria |-> criteria, sort_criteria |-> sort_criteria]
        /\ UNCHANGED windows

FilterWindowsWithSelection ==
    \E criteria \in FilterInputs, selection \in SelectionInputs :
        /\ ret' = filter_windows_with_selection(windows, criteria, selection)
        /\ op' = "filter_windows_with_selection"
        /\ args' = [criteria |-> criteria, selection |-> selection]
        /\ UNCHANGED windows

FilterSortWindowsWithSelection ==
    \E criteria \in FilterInputs, sort_criteria \in SortInputs,
       selection \in SelectionInputs :
        /\ ret' = filter_sort_windows_with_selection(windows, criteria,
                                                     sort_criteria, selection)
        /\ op' = "filter_sort_windows_with_selection"
        /\ args' = [criteria |-> criteria, sort_criteria |-> sort_criteria,
                    selection |-> selection]
        /\ UNCHANGED windows

Next ==
    \/ EnumerateAllWindows
    \/ FilterWindows
    \/ FilterAndSortWindows
    \/ FilterWindowsWithSelection
    \/ FilterSortWindowsWithSelection

Spec == Init /\ [][Next]_vars

----------------------------------------------------------------------------
(***************************************************************************)
(* Properties of the enumerator (specification Spec).                      *)
(***************************************************************************)
\* the inclusion rule as the documentation states it
IsTopLevelVisible(raw) == raw.visible /\ raw.parent = 0

\* the delivered windows the inclusion rule keeps, in delivery order
IncludedOf(delivered) == SelectSeq(delivered, IsTopLevelVisible)

QueryOps ==
    {"filter_windows", "filter_and_sort_windows",
     "filter_windows_with_selection", "filter_sort_windows_with_selection"}

SelectionOps ==
    {"filter_windows_with_selection", "filter_sort_windows_with_selection"}

\* C1: after every enumerate_all_windows that returns Ok, also one called on
\* an enumerator that held records, the records carry the indices 1, 2, ..., N
\* in the order the windows were delivered, and there are exactly as many
\* records as included windows of this enumeration (none of an earlier one).
C1_IndicesContiguousInDeliveryOrder ==
    (op = "enumerate_all_windows" /\ ret.ok) =>
        LET inc == IncludedOf(args.delivered)
        IN  /\ Len(windows) = Len(inc)
            /\ \A i \in 1..Len(windows) :
                  /\ windows[i].index = i
                  /\ windows[i].hwnd = inc[i].hwnd

\* a repeated call on a non-empty enumerator that returns Ok with two records
\* delivered in the order window 3, window 1
C1_Witness ==
    /\ op = "enumerate_all_windows"
    /\ ret.ok
    /\ args.held
    /\ Len(windows) = 2
    /\ windows[1].hwnd = 3
    /\ windows[2].hwnd = 1

\* the records of a list that carry index k
WithIndex(list, k) == SelectSeq(list, LAMBDA w : w.index = k)

\* C2: with Selection::Indices(S), the selecting queries return exactly the
\* records that pass the filter and whose index is in S: for every k, the
\* record with index k once if k is in S and that record passes the filter,
\* and no record with index k otherwise, wherever the sort put the record.
C2_SelectionByIndexField ==
    (op \in SelectionOps /\ args.selection.tag = "Indices") =>
        /\ \A i \in 1..Len(ret) : \E j \in 1..Len(windows) : ret[i] = windows[j]
        /\ \A k \in 1..(MaxWindows + 1) :
              WithIndex(ret, k) =
                  IF vec_contains(args.selection.indices, k)
                  THEN SelectSeq(WithIndex(windows, k),
                                 LAMBDA w : matches_criteria(w, args.criteria))
                  ELSE <<>>

\* filter, sort and select where the sort moved the selected record: index 2
\* is selected, and the record with index 2 was first in the sorted list
C2_Witness ==
    /\ op = "filter_sort_windows_with_selection"
    /\ args.selection = Selection_Indices(<<2>>)
    /\ Len(windows) = 2
    /\ Len(ret) = 1
    /\ ret[1].index = 2
    /\ filter_and_sort_windows(windows, args.criteria, args.sort_criteria)[1].index = 2

\* C3: when the enumeration call fails, the enumerator holds no record
\* afterwards, neither of the previous snapshot nor collected by the callback
\* before the failure.
C3_EmptyAfterFailure ==
    (op = "enumerate_all_windows" /\ ~ret.ok) => windows = <<>>

\* C4: a delivered window is in the snapshot iff it is visible and has no
\* parent, and a metadata query that fails leaves its fields empty or zero
\* while the window stays.
C4_InclusionAndDefaults ==
    (op = "enumerate_all_windows") =>
        LET inc == IncludedOf(args.delivered)
        IN  /\ Len(windows) = Len(inc)
            /\ \A i \in 1..Len(args.delivered) :
                  (\E j \in 1..Len(windows) : windows[j].hwnd = args.delivered[i].hwnd)
                      <=> IsTopLevelVisible(args.delivered[i])
            /\ \A i \in 1..Len(inc) :
                  LET raw == inc[i]
                      w == windows[i]
                  IN  /\ w.hwnd = raw.hwnd
                      /\ (Len(raw.text) = 0 => w.title = <<>>)
                      /\ (Len(raw.class) = 0 => w.class_name = <<>>)
                      /\ (raw.pid = 0 =>
                            w.pid = 0 /\ w.process_name = <<>> /\ w.process_file = <<>>)
                      /\ ((~raw.opened \/ Len(raw.image) = 0) =>
                            w.process_name = <<>> /\ w.process_file = <<>>)
                      /\ (~raw.rect_ok => w.position = WindowPosition_default)

\* an enumeration that delivered a child window and then the window whose
\* process cannot be opened: the first is skipped, the second kept
C4_Witness ==
    /\ op = "enumerate_all_windows"
    /\ Len(args.delivered) = 2
    /\ args.delivered[1].parent # 0
    /\ args.delivered[2].pid > 0
    /\ ~args.delivered[2].opened
    /\ Len(windows) = 1
    /\ windows[1].process_file = <<>>

\* C5: the four queries leave the snapshot as it was, and every record they
\* return is a record of the snapshot, index field included.
C5_QueriesLeaveSnapshot ==
    [][op' \in QueryOps =>
          /\ windows' = windows
          /\ \A i \in 1..Len(ret') : \E j \in 1..Len(windows) : ret'[i] = windows[j]]_vars

\* a sorting query that returned two records in the reverse of snapshot order
C5_Witness ==
    /\ op = "filter_and_sort_windows"
    /\ Len(ret) = 2
    /\ ret[1].index = 2
    /\ ret[2].index = 1

\* C9: with no sort key active, filter_and_sort_windows (and the selecting
\* variant under Selection::All) returns the list filter_windows returns, in
\* snapshot order.
C9_NoKeyIsIdentity ==
    (/\ op \in {"filter_and_sort_windows", "filter_sort_windows_with_selection"}
     /\ args.sort_criteria = SortCriteria_default
     /\ (op = "filter_sort_windows_with_selection" => args.selection.tag = "All")) =>
        /\ ret = filter_windows(windows, args.criteria)
        /\ \A i \in 1..Len(ret) : \A j \in 1..Len(ret) :
              i < j => ret[i].index < ret[j].index

\* the default criteria on a snapshot of two records that every active key
\* of some criteria would swap
C9_Witness ==
    /\ op = "filter_and_sort_windows"
    /\ args.sort_criteria = SortCriteria_default
    /\ Len(ret) = 2
    /\ compare_windows(ret[1], ret[2], SortCriteria(-1, 0, None)) = "Greater"

----------------------------------------------------------------------------
(***************************************************************************)
(* matches_criteria as a function of its arguments (specification          *)
(* SpecMatch): the arguments are drawn in the initial state, the call      *)
(* records its result.                                                     *)
(***************************************************************************)
\* all texts of at most n code points of A
RECURSIVE TextsOver(_, _)
TextsOver(A, n) ==
    IF n = 0 THEN {<<>>}
    ELSE LET shorter == TextsOver(A, n - 1)
         IN  shorter \cup { Append(t, c) : t \in { u \in shorter : Len(u) = n - 1 }, c \in A }

\* titles and title criteria: every text over 'A', 'a', 'b'
MatchTexts == TextsOver({65, 97, 98}, MaxTextLen)

\* the records: any title; class "aB", process name "p", a path with an
\* unpaired surrogate
MatchWindows ==
    { WindowInfo(1, 1, t, Str(<<"a", "B">>), Str(<<"p">>), <<92, 112, 55296>>,
                 WindowPosition_default, 1) : t \in MatchTexts }

OptionOf(S) == {None} \cup { Some(v) : v \in S }

MatchCriteria ==
    { FilterCriteria(pid, title, class_name, process_name, process_file) :
        pid \in OptionOf({1, 2}),
        title \in OptionOf(MatchTexts),
        class_name \in OptionOf({<<>>, Str(<<"b">>), Str(<<"b", "a">>)}),
        process_name \in OptionOf({<<>>, Str(<<"P">>), Str(<<"x">>)}),
        process_file \in OptionOf({<<>>, <<80, 65533>>, Str(<<"p", "p">>)}) }

InitMatch ==
    /\ windows = <<>>
    /\ op = "input"
    /\ \E w \in MatchWindows, c \in MatchCriteria : args = [window |-> w, criteria |-> c]
    /\ ret = <<>>

MatchesCriteria ==
    /\ op = "input"
    /\ op' = "matches_criteria"
    /\ ret' = matches_criteria(args.window, args.criteria)
    /\ UNCHANGED <<windows, args>>

NextMatch == MatchesCriteria

SpecMatch == InitMatch /\ [][NextMatch]_vars

\* n occurs in h as a run of consecutive code points
IsSubstring(n, h) ==
    \E i \in 1..(Len(h) + 1) :
        /\ i + Len(n) - 1 <= Len(h)
        /\ SubSeq(h, i, i + Len(n) - 1) = n

\* a substring criterion holds of a field: absent, empty, or found in the
\* field once both are lower-cased
CriterionHolds(filter, field) ==
    \/ filter = None
    \/ filter = Some(<<>>)
    \/ IsSubstring(to_lowercase(filter[1]), to_lowercase(field))

\* C6: matches_criteria is true exactly when the pid criterion, if present,
\* equals the record's pid and every present, non-empty substring criterion
\* occurs in its field (the path as text) after both are lower-cased; a
\* present empty criterion rejects nothing.
C6_MatchesExactlyWhenAllHold ==
    (op = "matches_criteria") =>
        LET w == args.window
            c == args.criteria
        IN  ret <=>
              /\ (c.pid # None => w.pid = c.pid[1])
              /\ CriterionHolds(c.title_contains, w.title)
              /\ CriterionHolds(c.class_name_contains, w.class_name)
              /\ CriterionHolds(c.process_name_contains, w.process_name)
              /\ CriterionHolds(c.process_file_contains, to_string_lossy(w.process_file))

\* a match that needs the lower-casing and is not at the start of the title,
\* with a present empty class criterion and a matching pid criterion
C6_Witness ==
    /\ op = "matches_criteria"
    /\ ret = TRUE
    /\ args.criteria.pid = Some(1)
    /\ args.window.title = <<98, 97>>
    /\ args.criteria.title_contains = Some(<<65>>)
    /\ args.criteria.class_name_contains = Some(<<>>)
    /\ args.criteria.process_name_contains = Some(<<80>>)

----------------------------------------------------------------------------
(***************************************************************************)
(* WindowSorter as functions of their arguments (specification SpecSort):  *)
(* a list and a criteria are drawn in the initial state; sort_windows      *)
(* sorts the list, compare_positions compares its first two records.       *)
(***************************************************************************)
\* pid, title, x, y of the records that are sorted: ties on every key, titles
\* that differ only in case, a capital that sorts before a small letter
\* unless lower-cased, a title that is a prefix of another
SortKeys ==
    { <<1, Str(<<"a">>), 0, 0>>,
      <<1, Str(<<"A">>), 0, 1>>,
      <<2, Str(<<"a">>), 1, 0>>,
      <<1, Str(<<"b">>), 1, 1>>,
      <<2, Str(<<"B">>), 0, 0>>,
      <<2, Str(<<"a", "b">>), 1, 1>> }

\* the lists: the record at place i has index i, as in a fresh snapshot
SortLists ==
    UNION { { [i \in 1..n |->
                 WindowInfo(i, k[i][1], k[i][2], <<>>, <<>>, <<>>,
                            WindowPosition(k[i][3], k[i][4], 1, 1), i)] :
              k \in [1..n -> SortKeys] } : n \in 0..MaxSortLen }

\* the documented criteria: pid and title 1, -1 or 0; position orders 1 or -1
PositionSortInputs ==
    { PositionSort_X(o) : o \in {-1, 1} } \cup { PositionSort_Y(o) : o \in {-1, 1} }
        \cup { PositionSort_XY(xo, yo) : xo \in {-1, 1}, yo \in {-1, 1} }

SortCriteriaInputs ==
    { SortCriteria(pid, title, position) :
        pid \in {-1, 0, 1}, title \in {-1, 0, 1}, position \in OptionOf(PositionSortInputs) }

InitSort ==
    /\ windows = <<>>
    /\ op = "input"
    /\ \E l \in SortLists, c \in SortCriteriaInputs : args = [list |-> l, sort_criteria |-> c]
    /\ ret = <<>>

SortWindows ==
    /\ op = "input"
    /\ op' = "sort_windows"
    /\ ret' = sort_windows(args.list, args.sort_criteria)
    /\ UNCHANGED <<windows, args>>

ComparePositions ==
    /\ op = "input"
    /\ Len(args.list) >= 2
    /\ args.sort_criteria.position # None
    /\ op' = "compare_positions"
    /\ ret' = compare_positions(args.list[1], args.list[2], args.sort_criteria.position[1])
    /\ UNCHANGED <<windows, args>>

NextSort ==
    \/ SortWindows
    \/ ComparePositions

SpecSort == InitSort /\ [][NextSort]_vars

\* the key chain of a criteria: the active keys in the order processId,
\* title, position (X before Y), each with the field it reads and its order
KeyChain(c) ==
    (IF c.pid # 0 THEN <<[key |-> "pid", order |-> c.pid]>> ELSE <<>>)
    \o (IF c.title # 0 THEN <<[key |-> "title", order |-> c.title]>> ELSE <<>>)
    \o (IF c.position = None THEN <<>>
        ELSE IF c.position[1].kind = "X"
             THEN <<[key |-> "x", order |-> c.position[1].order[1]]>>
        ELSE IF c.position[1].kind = "Y"
             THEN <<[key |-> "y", order |-> c.position[1].order[1]]>>
        ELSE <<[key |-> "x", order |-> c.position[1].order[1]],
               [key |-> "y", order |-> c.position[1].order[2]]>>)

\* a text is before another in dictionary order of code points
RECURSIVE TextBefore(_, _)
TextBefore(s, t) ==
    /\ t # <<>>
    /\ \/ s = <<>>
       \/ s[1] < t[1]
       \/ s[1] = t[1] /\ TextBefore(Tail(s), Tail(t))

\* records a and b tie on key k
KeyTies(k, a, b) ==
    CASE k.key = "pid" -> a.pid = b.pid
      [] k.key = "title" -> to_lowercase(a.title) = to_lowercase(b.title)
      [] k.key = "x" -> a.position.x = b.position.x
      [] k.key = "y" -> a.position.y = b.position.y

\* key k puts a before b: the smaller value first when the order is 1, the
\* larger first when it is -1
KeyOrders(k, a, b) ==
    LET before ==
            CASE k.key = "pid" -> a.pid < b.pid
              [] k.key = "title" -> TextBefore(to_lowercase(a.title), to_lowercase(b.title))
              [] k.key = "x" -> a.position.x < b.position.x
              [] k.key = "y" -> a.position.y < b.position.y
    IN  IF k.order = 1 THEN before ELSE ~before

\* a may stand in front of b under the chain: on the first key on which they
\* differ, that key puts a before b (or they tie on every key)
InChainOrder(chain, a, b) ==
    \A n \in 1..Len(chain) :
        ((\A m \in 1..(n - 1) : KeyTies(chain[m], a, b)) /\ ~KeyTies(chain[n], a, b))
            => KeyOrders(chain[n], a, b)

\* C7: sort_windows returns a permutation of its input in which any two
\* adjacent records are ordered by the first active key of the chain
\* processId, lower-cased title, position on which they differ, in that
\* key's direction.
C7_SortedByKeyChain ==
    (op = "sort_windows") =>
        /\ Len(ret) = Len(args.list)
        /\ \A i \in 1..Len(args.list) : \E j \in 1..Len(ret) : ret[j] = args.list[i]
        /\ \A i \in 1..(Len(ret) - 1) :
              InChainOrder(KeyChain(args.sort_criteria), ret[i], ret[i + 1])

\* three records reordered by descending pid, then ascending title, then Y:
\* the pid 2 record comes first, and the title decides between the two
\* records of pid 1
C7_Witness ==
    /\ op = "sort_windows"
    /\ args.sort_criteria = SortCriteria(-1, 1, Some(PositionSort_Y(1)))
    /\ Len(ret) = 3
    /\ ret # args.list
    /\ ret[1].pid = 2
    /\ ret[2].pid = 1
    /\ ret[3].pid = 1
    /\ to_lowercase(ret[2].title) # to_lowercase(ret[3].title)

\* C8: under XY(x_order, y_order) two records compare by X in x_order's
\* direction when their X differs and by Y in y_order's direction only when
\* their X is equal, for each of the four pairs of directions.
C8_CompoundPositionKey ==
    (op = "compare_positions" /\ args.sort_criteria.position[1].kind = "XY") =>
        LET a == args.list[1]
            b == args.list[2]
            x_order == args.sort_criteria.position[1].order[1]
            y_order == args.sort_criteria.position[1].order[2]
            expected(order, u, v) ==
                IF u = v THEN "Equal"
                ELSE IF (u < v) <=> (order = 1) THEN "Less"
                ELSE "Greater"
        IN  ret = IF a.position.x # b.position.x
                  THEN expected(x_order, a.position.x, b.position.x)
                  ELSE expected(y_order, a.position.y, b.position.y)

\* X ascending and Y descending on two records of equal X: Y decides, in its
\* own direction
C8_Witness ==
    /\ op = "compare_positions"
    /\ args.sort_criteria.position = Some(PositionSort_XY(1, -1))
    /\ args.list[1].position.x = args.list[2].position.x
    /\ args.list[1].position.y < args.list[2].position.y
    /\ ret = "Greater"

----------------------------------------------------------------------------
(***************************************************************************)
(* utils.rs: the selection parser                                          *)
(***************************************************************************)
\* char::is_whitespace on the code points used here
is_whitespace(c) == c \in {9, 10, 11, 12, 13, 32}

\* str::trim
RECURSIVE trim_start(_)
trim_start(s) ==
    IF s # <<>> /\ is_whitespace(s[1]) THEN trim_start(Tail(s)) ELSE s

RECURSIVE trim_end(_)
trim_end(s) ==
    IF s # <<>> /\ is_whitespace(s[Len(s)])
    THEN trim_end(SubSeq(s, 1, Len(s) - 1))
    ELSE s

trim(s) == trim_end(trim_start(s))

\* str::split(sep).collect(): the pieces between the separators, one more
\* than there are separators
RECURSIVE SplitFrom(_, _, _, _)
SplitFrom(s, sep, i, piece) ==
    IF i > Len(s) THEN <<piece>>
    ELSE IF s[i] = sep THEN <<piece>> \o SplitFrom(s, sep, i + 1, <<>>)
    ELSE SplitFrom(s, sep, i + 1, Append(piece, s[i]))

split(s, sep) == SplitFrom(s, sep, 1, <<>>)

\* str::contains(char)
contains_char(s, c) == \E i \in 1..Len(s) : s[i] = c

\* usize::from_str on the digits after an optional '+'
RECURSIVE ParseDigits(_, _)
ParseDigits(digits, acc) ==
    IF digits = <<>> THEN acc
    ELSE ParseDigits(Tail(digits), 10 * acc + (digits[1] - 48))

\* parse_index: s.parse::<usize>() accepts one optional '+' and then one or
\* more ASCII digits (the texts of the model stay far below usize::MAX)
parse_index(s) ==
    LET digits == IF s # <<>> /\ s[1] = 43 THEN Tail(s) ELSE s
    IN  IF digits = <<>> \/ \E i \in 1..Len(digits) : digits[i] < 48 \/ digits[i] > 57
        THEN Err("InvalidIndex")
        ELSE Ok(ParseDigits(digits, 0))

\* the range loop counting down when start is above end
push_range_either_way(indices, start, end) ==
    indices \o [i \in 1..(IF start <= end THEN end - start + 1 ELSE start - end + 1) |->
                   IF start <= end THEN start + i - 1 ELSE start - i + 1]

\* for i in start..=end { indices.push(i) }
push_range(indices, start, end) ==
    indices \o [i \in 1..(IF start <= end THEN end - start + 1 ELSE 0) |-> start + i - 1]

\* the body of the loop over the parts
parse_part(indices, raw_part) ==
    LET part == trim(raw_part)
    IN  IF contains_char(part, 45)
        THEN LET range_parts == split(part, 45)
             IN  IF Len(range_parts) = 2
                 THEN LET start == parse_index(trim(range_parts[1]))
                          end == parse_index(trim(range_parts[2]))
                      IN  IF ~start.ok THEN start
                          ELSE IF ~end.ok THEN end
                          ELSE Ok(push_range(indices, start.v, end.v))
                 ELSE Err("InvalidRange")
        ELSE LET index == parse_index(part)
             IN  IF ~index.ok THEN index ELSE Ok(Append(indices, index.v))

\* the loop going on to the next part after a part that fails
RECURSIVE parse_parts_skipping(_, _, _)
parse_parts_skipping(parts, i, indices) ==
    IF i > Len(parts) THEN Ok(indices)
    ELSE LET r == parse_part(indices, parts[i])
         IN  parse_parts_skipping(parts, i + 1, IF r.ok THEN r.v ELSE indices)

\* for part in parts { ... }: stops at the first error
RECURSIVE parse_parts(_, _, _)
parse_parts(parts, i, indices) ==
    IF i > Len(parts) THEN Ok(indices)
    ELSE LET r == parse_part(indices, parts[i])
         IN  IF r.ok THEN parse_parts(parts, i + 1, r.v) ELSE r

\* Vec::sort on usize
RECURSIVE insert_usize(_, _)
insert_usize(sorted, x) ==
    IF sorted = <<>> THEN <<x>>
    ELSE IF sorted[Len(sorted)] > x
    THEN Append(insert_usize(SubSeq(sorted, 1, Len(sorted) - 1), x), sorted[Len(sorted)])
    ELSE Append(sorted, x)

RECURSIVE sort(_)
sort(v) ==
    IF v = <<>> THEN <<>>
    ELSE insert_usize(sort(SubSeq(v, 1, Len(v) - 1)), v[Len(v)])

\* Vec::dedup left out
dedup_skipped(v) == v

\* Vec::dedup: removes an element equal to the one before it
RECURSIVE dedup(_)
dedup(v) ==
    IF Len(v) <= 1 THEN v
    ELSE LET front == dedup(SubSeq(v, 1, Len(v) - 1))
         IN  IF front[Len(front)] = v[Len(v)] THEN front ELSE Append(front, v[Len(v)])

parse_selection(input) ==
    LET selection_str == to_lowercase(trim(input))
    IN  IF selection_str = Str(<<"a", "l", "l">>) THEN Ok(Selection_All)
        ELSE LET r == parse_parts(split(selection_str, 44), 1, <<>>)
             IN  IF r.ok THEN Ok(Selection_Indices(dedup(sort(r.v)))) ELSE r

(***************************************************************************)
(* parse_selection as a function of its argument (specification            *)
(* SpecParse): the string is drawn in the initial state, the call records  *)
(* its result.                                                             *)
(***************************************************************************)
\* the texts between the commas of the strings that are parsed
TokenTexts ==
    { Str(<<"1">>), Str(<<"2">>), Str(<<"3">>), Str(<<" ", "2", " ">>),
      Str(<<"1", "0">>), Str(<<"+", "1">>), Str(<<"0", "3">>),
      Str(<<"1", "-", "3">>), Str(<<"2", "-", "2">>), Str(<<"3", "-", "1">>),
      Str(<<"5", "-", "2">>),
      Str(<<" ", "2", " ", "-", " ", "3", " ">>),
      <<>>, Str(<<"x">>), Str(<<"1", "-">>), Str(<<"-", "1">>),
      Str(<<"1", "-", "2", "-", "3">>), Str(<<"1", "-", "x">>),
      Str(<<"a", "l", "l">>), Str(<<" ", "A", "L", "l", " ">>) }

\* the tokens joined by commas
RECURSIVE Join(_)
Join(tokens) ==
    IF Len(tokens) = 1 THEN tokens[1]
    ELSE Join(SubSeq(tokens, 1, Len(tokens) - 1)) \o <<44>> \o tokens[Len(tokens)]

SelectionStrings ==
    UNION { { Join(t) : t \in [1..n -> TokenTexts] } : n \in 1..MaxTokens }

InitParse ==
    /\ windows = <<>>
    /\ op = "input"
    /\ \E input \in SelectionStrings : args = [input |-> input]
    /\ ret = <<>>

ParseSelection ==
    /\ op = "input"
    /\ op' = "parse_selection"
    /\ ret' = parse_selection(args.input)
    /\ UNCHANGED <<windows, args>>

NextParse == ParseSelection

SpecParse == InitParse /\ [][NextParse]_vars

\* the number a numeral (digits after an optional '+') writes
RECURSIVE NumeralValue(_)
NumeralValue(t) ==
    IF t = <<>> THEN 0
    ELSE IF t[1] = 43 THEN NumeralValue(Tail(t))
    ELSE 10 * NumeralValue(SubSeq(t, 1, Len(t) - 1)) + (t[Len(t)] - 48)

\* the tokens of a selection string: the texts between its commas
TokensOf(input) ==
    LET text == to_lowercase(trim(input))
        seps == {0, Len(text) + 1} \cup { i \in 1..Len(text) : text[i] = 44 }
    IN  { trim(SubSeq(text, i + 1, j - 1)) :
            <<i, j>> \in { p \in seps \X seps :
                             /\ p[1] < p[2]
                             /\ \A k \in seps : ~(p[1] < k /\ k < p[2]) } }

\* the indices a token names: the integer it writes, or every integer from
\* start to end of the range it writes
IndicesOf(token) ==
    LET dashes == { i \in 1..Len(token) : token[i] = 45 }
    IN  IF dashes = {} THEN {NumeralValue(token)}
        ELSE LET d == CHOOSE i \in dashes : TRUE
             IN  NumeralValue(trim(SubSeq(token, 1, d - 1)))
                     .. NumeralValue(trim(SubSeq(token, d + 1, Len(token))))

\* C10: for an accepted input other than "all", the result is
\* Selection::Indices with a strictly ascending list whose elements are
\* exactly the integers of the bare tokens and of the inclusive ranges.
C10_IndicesSortedDedupedUnion ==
    (/\ op = "parse_selection"
     /\ ret.ok
     /\ to_lowercase(trim(args.input)) # Str(<<"a", "l", "l">>)) =>
        LET indices == ret.v.indices
        IN  /\ ret.v.tag = "Indices"
            /\ \A i \in 1..(Len(indices) - 1) : indices[i] < indices[i + 1]
            /\ { indices[i] : i \in 1..Len(indices) }
                  = UNION { IndicesOf(t) : t \in TokensOf(args.input) }

\* a range and a bare index inside it, given after it and out of order:
\* "1-3" and " 2 " give 1, 2, 3
C10_Witness ==
    /\ op = "parse_selection"
    /\ args.input = Str(<<"1", "-", "3", ",", " ", "2", " ">>)
    /\ ret.ok
    /\ ret.v = Selection_Indices(<<1, 2, 3>>)

\* a result is the error e
FailsWith(result, e) == ~result.ok /\ result.v = e

\* a result is the value v
Returns(result, v) == result.ok /\ result.v = v

\* the tokens of a selection string in their order, left to right
TokenSeqOf(input) ==
    LET text == to_lowercase(trim(input))
        commas == SetToSeq({ i \in 1..Len(text) : text[i] = 44 })
        bounds == <<0>> \o commas \o <<Len(text) + 1>>
    IN  [n \in 1..(Len(commas) + 1) |-> trim(SubSeq(text, bounds[n] + 1, bounds[n + 1] - 1))]

\* a numeral: digits, at least one, after an optional '+'
IsNumeral(t) ==
    LET digits == IF t # <<>> /\ t[1] = 43 THEN Tail(t) ELSE t
    IN  /\ digits # <<>>
        /\ \A i \in 1..Len(digits) : digits[i] \in 48..57

DashesOf(token) == { i \in 1..Len(token) : token[i] = 45 }

\* a token with one '-' and a numeral on each side of it
IsRange(token) ==
    /\ Cardinality(DashesOf(token)) = 1
    /\ LET d == CHOOSE i \in DashesOf(token) : TRUE
       IN  /\ IsNumeral(trim(SubSeq(token, 1, d - 1)))
           /\ IsNumeral(trim(SubSeq(token, d + 1, Len(token))))

\* a range whose start is above its end
IsReversedRange(token) ==
    /\ IsRange(token)
    /\ LET d == CHOOSE i \in DashesOf(token) : TRUE
       IN  NumeralValue(trim(SubSeq(token, 1, d - 1)))
               > NumeralValue(trim(SubSeq(token, d + 1, Len(token))))

IsValidToken(token) == IsNumeral(token) \/ IsRange(token)

ErrorOf(token) ==
    IF Cardinality(DashesOf(token)) > 1 THEN "InvalidRange" ELSE "InvalidIndex"

C13_ErrorIsInvalidSelectionFormat ==
    (op = "parse_selection" /\ ~ret.ok) => ret.v = "InvalidSelectionFormat"

-----------------------------------------------------------------------------
(***************************************************************************)
(* utils.rs: parse_position_sort.  The inputs are ASCII, so the byte      *)
(* length and the byte slice of the code are the length and the slice of  *)
(* the code point sequence.                                               *)
(***************************************************************************)

\* str::starts_with(char)
starts_with(s, c) == s # <<>> /\ s[1] = c

\* the length check dropped: the letter alone goes on to the order match
parse_single_position_order_no_length_check(part, expected_prefix) ==
    IF ~starts_with(part, expected_prefix)
    THEN Err("InvalidPositionSortFormat")
    ELSE LET order_str == SubSeq(part, 2, Len(part))
         IN  IF order_str = Str(<<"1">>) THEN Ok(1)
             ELSE IF order_str = Str(<<"-", "1">>) THEN Ok(-1)
             ELSE Err("InvalidSortOrder")

\* parse_single_position_order: the prefix letter, then "1" or "-1"
parse_single_position_order(part, expected_prefix) ==
    IF Len(part) < 2 \/ ~starts_with(part, expected_prefix)
    THEN Err("InvalidPositionSortFormat")
    ELSE LET order_str == SubSeq(part, 2, Len(part))
         IN  IF order_str = Str(<<"1">>) THEN Ok(1)
             ELSE IF order_str = Str(<<"-", "1">>) THEN Ok(-1)
             ELSE Err("InvalidSortOrder")

\* the count of the parts not checked: the first two parts are used
parse_position_sort_first_two_parts(sort_str_in) ==
    LET sort_str == to_lowercase(trim(sort_str_in))
    IN  IF sort_str = <<>> THEN Ok(None)
        ELSE IF contains_char(sort_str, 124)
        THEN LET parts == split(sort_str, 124)
                 x_order == parse_single_position_order(trim(parts[1]), 120)
                 y_order == parse_single_position_order(trim(parts[2]), 121)
             IN  IF ~x_order.ok THEN x_order
                 ELSE IF ~y_order.ok THEN y_order
                 ELSE Ok(Some(PositionSort_XY(x_order.v, y_order.v)))
        ELSE IF starts_with(sort_str, 120)
        THEN LET order == parse_single_position_order(sort_str, 120)
             IN  IF order.ok THEN Ok(Some(PositionSort_X(order.v))) ELSE order
        ELSE IF starts_with(sort_str, 121)
        THEN LET order == parse_single_position_order(sort_str, 121)
             IN  IF order.ok THEN Ok(Some(PositionSort_Y(order.v))) ELSE order
        ELSE Err("InvalidPositionSortFormat")

\* parse_position_sort; each `?` returns the error of the call it follows
parse_position_sort(sort_str_in) ==
    LET sort_str == to_lowercase(trim(sort_str_in))
    IN  IF sort_str = <<>> THEN Ok(None)
        ELSE IF contains_char(sort_str, 124)
        THEN LET parts == split(sort_str, 124)
             IN  IF Len(parts) # 2 THEN Err("InvalidPositionSortFormat")
                 ELSE LET x_order == parse_single_position_order(trim(parts[1]), 120)
                          y_order == parse_single_position_order(trim(parts[2]), 121)
                      IN  IF ~x_order.ok THEN x_order
                          ELSE IF ~y_order.ok THEN y_order
                          ELSE Ok(Some(PositionSort_XY(x_order.v, y_order.v)))
        ELSE IF starts_with(sort_str, 120)
        THEN LET order == parse_single_position_order(sort_str, 120)
             IN  IF order.ok THEN Ok(Some(PositionSort_X(order.v))) ELSE order
        ELSE IF starts_with(sort_str, 121)
        THEN LET order == parse_single_position_order(sort_str, 121)
             IN  IF order.ok THEN Ok(Some(PositionSort_Y(order.v))) ELSE order
        ELSE Err("InvalidPositionSortFormat")

(***************************************************************************)
(* parse_position_sort as a function of its input: one to MaxCoords parts *)
(* joined by '|'.                                                         *)
(***************************************************************************)
CoordTexts ==
    { Str(<<"x", "1">>), Str(<<"x", "-", "1">>), Str(<<"y", "1">>),
      Str(<<"y", "-", "1">>), Str(<<"X", "1">>), Str(<<" ", "Y", "-", "1", " ">>),
      Str(<<"x">>), Str(<<"y">>), Str(<<"x", "2">>), Str(<<"y", "+", "1">>),
      Str(<<"x", " ", "1">>), Str(<<"y", "1", "1">>), Str(<<"z", "1">>),
      Str(<<"1">>), Str(<<"-", "1">>), <<>>, Str(<<" ">>) }

RECURSIVE JoinCoords(_)
JoinCoords(coords) ==
    IF Len(coords) = 1 THEN coords[1]
    ELSE JoinCoords(SubSeq(coords, 1, Len(coords) - 1)) \o <<124>> \o coords[Len(coords)]

InitPos ==
    /\ windows = <<>>
    /\ op = "input"
    /\ \E n \in 1..MaxCoords : \E t \in [1..n -> CoordTexts] :
          args = [input |-> JoinCoords(t)]
    /\ ret = <<>>

ParsePositionSort ==
    /\ op = "input"
    /\ op' = "parse_position_sort"
    /\ ret' = parse_position_sort(args.input)
    /\ UNCHANGED <<windows, args>>

NextPos == ParsePositionSort

SpecPos == InitPos /\ [][NextPos]_vars

\* the parts of a position sort string between its '|', left to right
CoordSeqOf(input) ==
    LET text == to_lowercase(trim(input))
        bars == SetToSeq({ i \in 1..Len(text) : text[i] = 124 })
        bounds == <<0>> \o bars \o <<Len(text) + 1>>
    IN  [n \in 1..(Len(bars) + 1) |-> trim(SubSeq(text, bounds[n] + 1, bounds[n + 1] - 1))]

LeadsWith(coord, letter) == coord # <<>> /\ coord[1] = letter

\* the direction part of a coord is "1" or "-1"
HasDirection(coord) == Tail(coord) \in { Str(<<"1">>), Str(<<"-", "1">>) }

DirectionOf(coord) == IF Tail(coord) = Str(<<"1">>) THEN 1 ELSE -1

\* the results the claim gives for the shapes it accepts
AcceptedShapes(input, result) ==
    LET text == to_lowercase(trim(input))
        coords == CoordSeqOf(input)
    IN  /\ text = <<>> => Returns(result, None)
        /\ (text # <<>> /\ Len(coords) = 1 /\ LeadsWith(coords[1], 120) /\ HasDirection(coords[1]))
              => Returns(result, Some(PositionSort_X(DirectionOf(coords[1]))))
        /\ (Len(coords) = 1 /\ LeadsWith(coords[1], 121) /\ HasDirection(coords[1]))
              => Returns(result, Some(PositionSort_Y(DirectionOf(coords[1]))))
        /\ (/\ Len(coords) = 2
            /\ LeadsWith(coords[1], 120) /\ HasDirection(coords[1])
            /\ LeadsWith(coords[2], 121) /\ HasDirection(coords[2]))
              => Returns(result, Some(PositionSort_XY(DirectionOf(coords[1]), DirectionOf(coords[2]))))
        /\ (result.ok /\ result.v # None /\ result.v[1].kind = "XY")
              => Len(coords) = 2 /\ LeadsWith(coords[1], 120) /\ LeadsWith(coords[2], 121)

\* a shape other than a coord or an x coord and a y coord: another leading
\* letter, the swapped order, or more than one '|'
OtherShape(input) ==
    LET coords == CoordSeqOf(input)
    IN  /\ to_lowercase(trim(input)) # <<>>
        /\ \/ Len(coords) > 2
           \/ Len(coords) = 1 /\ ~LeadsWith(coords[1], 120) /\ ~LeadsWith(coords[1], 121)
           \/ Len(coords) = 2 /\ ~(LeadsWith(coords[1], 120) /\ LeadsWith(coords[2], 121))

\* the x part of a pair has its letter and a direction other than "1", "-1"
XPartHasBadDirection(input) ==
    LET coords == CoordSeqOf(input)
    IN  /\ Len(coords) = 2
        /\ LeadsWith(coords[1], 120) /\ Len(coords[1]) >= 2 /\ ~HasDirection(coords[1])

ExpectedLetter(coords, n) ==
    IF Len(coords) = 1
    THEN (IF LeadsWith(coords[1], 121) THEN 121 ELSE 120)
    ELSE (IF n = 1 THEN 120 ELSE 121)

IsValidCoord(coords, n) ==
    LeadsWith(coords[n], ExpectedLetter(coords, n)) /\ HasDirection(coords[n])

\* C15 as stated: a coord of a single or a pair that starts with its expected
\* letter and has a direction part other than "1" or "-1", the missing
\* direction included, makes the parse fail with InvalidSortOrder.
C15_BadDirectionIsInvalidSortOrder ==
    op = "parse_position_sort" =>
        LET coords == CoordSeqOf(args.input)
        IN  (/\ Len(coords) <= 2
             /\ \E n \in 1..Len(coords) :
                   /\ LeadsWith(coords[n], ExpectedLetter(coords, n))
                   /\ ~HasDirection(coords[n]))
                => FailsWith(ret, "InvalidSortOrder")

\* C15: in a single or a pair, when the first part from the left that is not
\* a valid coord starts with its expected letter, the parse fails with
\* InvalidSortOrder if a direction part follows the letter and with
\* InvalidPositionSortFormat if the part is the letter alone.
C15_FirstBadDirection ==
    op = "parse_position_sort" =>
        LET coords == CoordSeqOf(args.input)
            bad == { n \in 1..Len(coords) : ~IsValidCoord(coords, n) }
        IN  (Len(coords) <= 2 /\ bad # {}) =>
                LET first == CHOOSE n \in bad : \A m \in bad : n <= m
                IN  LeadsWith(coords[first], ExpectedLetter(coords, first)) =>
                        FailsWith(ret, IF Len(coords[first]) >= 2
                                       THEN "InvalidSortOrder"
                                       ELSE "InvalidPositionSortFormat")

\* "x1|y+1": the y part has its letter and the direction "+1"
C15_Witness ==
    /\ op = "parse_position_sort"
    /\ args.input = Str(<<"x", "1", "|", "y", "+", "1">>)
    /\ ret = Err("InvalidSortOrder")

-----------------------------------------------------------------------------
(***************************************************************************)
(* enumerator.rs: the process-metadata queries of one enumerate_all_windows*)
(* call.  get_process_info opens the process it is given; the record of   *)
(* the calls is kept in args.process_queries, the pids in call order.     *)
(***************************************************************************)

\* get_window_info calling get_process_info without the test pid > 0
get_window_info_queries_unguarded(raw) == <<get_process_id(raw)>>

\* the get_process_info calls of get_window_info: one when pid > 0
get_window_info_queries(raw) ==
    IF get_process_id(raw) > 0 THEN <<get_process_id(raw)>> ELSE <<>>

\* the get_process_info calls after the callback ran on raw
enum_windows_proc_queries(queries, raw) ==
    IF raw.visible /\ raw.parent = 0
    THEN queries \o get_window_info_queries(raw)
    ELSE queries

\* the get_process_info calls of the callbacks on the first k windows
RECURSIVE EnumWindowsQueries(_, _, _)
EnumWindowsQueries(queries, src, k) ==
    IF k = 0 THEN queries
    ELSE enum_windows_proc_queries(EnumWindowsQueries(queries, src, k - 1), src[k])

\* the desktop with a second visible top-level window of process 1
SharedDesktop ==
    Desktop \cup
    { RawWindow(6, TRUE, 0, Str(<<"B">>), Str(<<"c">>), 1, TRUE,
                Str(<<"\\", "x", "\\", "p">>), TRUE, <<1, 1, 2, 2>>) }

\* the enumerations of that desktop: each window delivered at most once
SharedSources ==
    UNION { { src \in [1..n -> SharedDesktop] :
                \A i, j \in 1..n : src[i] = src[j] => i = j } : n \in 0..MaxWindows }

\* enumerate_all_windows with the record of its get_process_info calls
EnumerateAllWindowsQueried ==
    \E delivered \in SharedSources, success \in BOOLEAN :
        LET collected == EnumWindows(clear(windows), delivered, Len(delivered))
        IN  /\ windows' = IF success THEN AssignIndices(collected) ELSE collected
            /\ ret' = IF success THEN Ok(<<>>) ELSE Err("WindowsApiError")
            /\ op' = "enumerate_all_windows"
            /\ args' = [delivered |-> delivered, held |-> windows # <<>>,
                        process_queries |->
                            EnumWindowsQueries(<<>>, delivered, Len(delivered))]

NextQueries == EnumerateAllWindowsQueried

SpecQueries == Init /\ [][NextQueries]_vars

\* how many times pid was queried
QueryCount(queries, pid) == Cardinality({ i \in 1..Len(queries) : queries[i] = pid })

\* C16 as stated: in one call, each non-zero pid of an included window is
\* queried at most once, and pid 0 is never queried and leaves the process
\* name and path empty.
C16_OneQueryPerProcess ==
    op = "enumerate_all_windows" =>
        /\ \A i \in 1..Len(args.process_queries) :
              /\ args.process_queries[i] # 0
              /\ QueryCount(args.process_queries, args.process_queries[i]) <= 1
        /\ \A i \in 1..Len(windows) :
              windows[i].pid = 0 =>
                  windows[i].process_name = <<>> /\ windows[i].process_file = <<>>

\* C16: in one call, the query is issued once for each included window whose
\* pid is not 0, in delivery order, so as many times for a pid as included
\* windows have it; it is never issued for pid 0, whose process name and
\* path stay empty.
C16_OneQueryPerWindow ==
    op = "enumerate_all_windows" =>
        LET owned == SelectSeq(IncludedOf(args.delivered), LAMBDA raw : raw.pid # 0)
        IN  /\ args.process_queries = [i \in 1..Len(owned) |-> owned[i].pid]
            /\ QueryCount(args.process_queries, 0) = 0
            /\ \A i \in 1..Len(windows) :
                  windows[i].pid = 0 =>
                      windows[i].process_name = <<>> /\ windows[i].process_file = <<>>

\* two windows of process 1 were included and process 1 was queried twice
C16_Witness ==
    /\ op = "enumerate_all_windows"
    /\ Len(windows) = 2
    /\ windows[1].hwnd # windows[2].hwnd
    /\ windows[1].pid = windows[2].pid
    /\ args.process_queries = <<1, 1>>

-----------------------------------------------------------------------------
\* records a and b tie on every active key of the criteria
TiesOnEveryKey(c, a, b) ==
    \A n \in 1..Len(KeyChain(c)) : KeyTies(KeyChain(c)[n], a, b)

\* C17: the sort is stable: records that tie on every active key (titles
\* that differ only in case tie) keep their order from the input, which is
\* the ascending order of their index field, and selecting by index before
\* the sort gives the same list as selecting after it.
C17_StableSort ==
    (op = "sort_windows") =>
        /\ \A i, j \in 1..Len(ret) :
              (i < j /\ TiesOnEveryKey(args.sort_criteria, ret[i], ret[j]))
                  => ret[i].index < ret[j].index
        /\ \A keep \in SUBSET (1..Len(args.list)) :
              apply_selection(ret, Selection_Indices(SetToSeq(keep)))
                  = sort_windows(apply_selection(args.list, Selection_Indices(SetToSeq(keep))),
                                 args.sort_criteria)

\* sorted by ascending title alone, "b", "a", "A" became "a", "A", "b": the
\* two records that tie kept their order
C17_Witness ==
    /\ op = "sort_windows"
    /\ args.sort_criteria = SortCriteria(0, 1, None)
    /\ Len(ret) = 3
    /\ ret[1].title = Str(<<"a">>) /\ ret[1].index = 2
    /\ ret[2].title = Str(<<"A">>) /\ ret[2].index = 3
    /\ ret[3].title = Str(<<"b">>) /\ ret[3].index = 1

-----------------------------------------------------------------------------
(***************************************************************************)
(* sort_windows on direction values outside the documented ones: the i8   *)
(* fields hold any value, here 2, -2 and, for a position order, 0.         *)
(***************************************************************************)
SignPositionSortInputs ==
    { PositionSort_X(o) : o \in {-2, 0, 2} } \cup { PositionSort_Y(o) : o \in {-2, 0, 2} }
        \cup { PositionSort_XY(xo, yo) : xo \in {-2, 0, 2}, yo \in {-2, 0, 2} }

SignCriteriaInputs ==
    { SortCriteria(pid, title, position) :
        pid \in {-2, 0, 2}, title \in {-2, 0, 2},
        position \in OptionOf(SignPositionSortInputs) }

InitSigns ==
    /\ windows = <<>>
    /\ op = "input"
    /\ \E l \in SortLists, c \in SignCriteriaInputs : args = [list |-> l, sort_criteria |-> c]
    /\ ret = <<>>

NextSigns == SortWindows

SpecSigns == InitSigns /\ [][NextSigns]_vars

\* key k puts a before b when only the sign of its order counts: the larger
\* value first when the order is negative, the smaller first otherwise
KeyOrdersBySign(k, a, b) ==
    LET before ==
            CASE k.key = "pid" -> a.pid < b.pid
              [] k.key = "title" -> TextBefore(to_lowercase(a.title), to_lowercase(b.title))
              [] k.key = "x" -> a.position.x < b.position.x
              [] k.key = "y" -> a.position.y < b.position.y
    IN  IF k.order < 0 THEN ~before ELSE before

InChainOrderBySign(chain, a, b) ==
    \A n \in 1..Len(chain) :
        ((\A m \in 1..(n - 1) : KeyTies(chain[m], a, b)) /\ ~KeyTies(chain[n], a, b))
            => KeyOrdersBySign(chain[n], a, b)

\* C18: only the sign of a direction counts: sort_windows returns a
\* permutation of its input ordered by the chain of its active keys, a
\* positive pid or title order ascending, a negative one descending, and a
\* position key active whatever its order is, ascending when the order is 0;
\* with pid = 0, title = 0 and position = Some(X(0)) the result is in
\* ascending x.
C18_OnlyTheSignCounts ==
    (op = "sort_windows") =>
        /\ Len(ret) = Len(args.list)
        /\ \A i \in 1..Len(args.list) : \E j \in 1..Len(ret) : ret[j] = args.list[i]
        /\ \A i \in 1..(Len(ret) - 1) :
              InChainOrderBySign(KeyChain(args.sort_criteria), ret[i], ret[i + 1])
        /\ args.sort_criteria = SortCriteria(0, 0, Some(PositionSort_X(0))) =>
              \A i \in 1..(Len(ret) - 1) : ret[i].position.x <= ret[i + 1].position.x

\* pid = 0, title = 0, position = Some(X(0)): the list was reordered
C18_Witness ==
    /\ op = "sort_windows"
    /\ args.sort_criteria = SortCriteria(0, 0, Some(PositionSort_X(0)))
    /\ ret # args.list
    /\ ret[1].position.x < ret[Len(ret)].position.x

====
